---- MODULE Spec2Model ----
(***************************************************************************)
(* A model of the AI-Trading-Bot pipeline skeleton:                        *)
(*   - ExecutionGuard            (src/pipeline/shutdown.py)                *)
(*   - CalendarEvent, MarketCalendar and its durable files                 *)
(*                               (src/pipeline/market_calendars.py)        *)
(*   - MarketCalendarManager     (src/pipeline/market_calendars.py)        *)
(*   - CalendarFetcher           (src/pipeline/data_sources.py)            *)
(*   - run_full_pipeline         (src/pipeline/main.py)                    *)
(*   - the calendar commands     (src/tools/update_calendars.py,           *)
(*                                src/tools/query_calendars.py)            *)
(* Each component has a specification of its own (SpecGuard, SpecStore,    *)
(* SpecManager, SpecFetch, SpecPipeline, SpecCli) over the shared          *)
(* variables; a specification leaves the variables of the other            *)
(* components at their initial values.  SpecQuery is the calendar          *)
(* constructed on a given data directory and queried, SpecBulk the         *)
(* calendar's add operations alone, SpecGrow the adds, queries and saves   *)
(* of one live calendar, SpecCycle repeated construct / populate / save    *)
(* cycles on one data directory.                                           *)
(*                                                                         *)
(* Conventions: Python's None is the empty sequence <<>> and a value v     *)
(* that may be None is <<v>>; time.time() and datetime.now() are the       *)
(* integer variable now (seconds); an Enum member is the string of its     *)
(* name and its .value the string the source gives it.                     *)
(***************************************************************************)
EXTENDS Integers, Sequences, FiniteSets, TLC

VARIABLES
    now,                        \* the wall clock read by time.time() / datetime.now()
    \* ---- ExecutionGuard
    start_time,                 \* self.start_time: <<>> (None) or <<t>>
    tokens_used,                \* self.tokens_used
    daily_token_budget,         \* self.daily_token_budget   (from the configuration)
    execution_window_minutes,   \* self.execution_window_minutes (from the configuration)
    g_op,                       \* the guard operation called last
    g_ret,                      \* what it returned
    g_raised,                   \* whether it raised
    g_sum,                      \* history: the sum of the counts given to record_tokens
    g_records,                  \* history: the number of record_tokens calls
    g_ticks,                    \* history: the number of clock advances
    g_stopped,                  \* history: should_continue() has returned False
    \* ---- MarketCalendar (one live instance per data directory) and its files
    market,                     \* self.market
    events,                     \* self.events: ticker -> list of CalendarEvent
    last_updated,               \* self.last_updated: <<>> (None) or <<timestamp>>
    yaml_file,                  \* data_dir/calendar.yaml: <<>> (absent) or <<document>>
    json_file,                  \* data_dir/calendar.json: <<>> (absent) or <<document>>
    s_op,                       \* the store operation called last
    s_dup,                      \* history: the keys given more than once to the last bulk add
    s_raised,                   \* whether it raised
    s_arg,                      \* the argument of the query called last, <<>> otherwise
    s_ret,                      \* what the query called last returned, <<>> otherwise
    saved,                      \* history: <<>> or <<[format, events]>> of the last save
    s_ticks,                    \* history: the number of clock advances
    s_saves,                    \* history: the number of saves
    \* ---- CalendarFetcher.populate_calendar on the live calendar
    behaviour,                  \* what each source of self.sources does when called
    f_pc,                       \* where the call of populate_calendar stands
    f_idx,                      \* the index in self.sources of the loop's source
    result,                     \* fetch_all_calendars' result: key -> list of events
    f_earnings,                 \* fetch_all_calendars' local 'earnings'
    f_calls,                    \* history: the source methods called in this call
    f_store0,                   \* history: self.events when the call began
    f_runs,                     \* history: the number of populate_calendar calls
    \* ---- MarketCalendarManager and the data directories of its calendars
    calendars,                  \* self.calendars: Market -> [events, last_updated]
    data_dir,                   \* self.data_dir/<market.value>: Market -> [yaml, json],
                                \* each file <<>> (absent) or <<document>>
    m_op,                       \* the manager operation called last
    m_format,                   \* the format_type it was given, <<>> if none
    m_error,                    \* <<>> or <<the class of the error it raised>>
    m_dup,                      \* history: the key of the event given to the last
                                \* add_event_to_market, if the calendar held it
    m_saves,                    \* history: the number of save calls
    \* ---- run_full_pipeline (src/pipeline/main.py) on its guard
    p_pc,                       \* where the run stands
    p_trace,                    \* history: the stages begun, the token recordings and
                                \* the polls of the run, in order
    p_ret,                      \* <<>> or <<the record run_full_pipeline returned>>
    p_raised,                   \* an exception left run_full_pipeline
    \* ---- the calendar commands (src/tools) on the manager's data directories
    c_cmd,                      \* the command run last
    c_args,                     \* its options
    c_exit                      \* its exit status

guard_vars == <<start_time, tokens_used, daily_token_budget, execution_window_minutes,
                g_op, g_ret, g_raised, g_sum, g_records, g_ticks, g_stopped>>

store_vars == <<market, events, last_updated, yaml_file, json_file,
                s_op, s_dup, s_raised, s_arg, s_ret, saved, s_ticks, s_saves>>

fetch_vars == <<behaviour, f_pc, f_idx, result, f_earnings, f_calls, f_store0, f_runs>>

mgr_vars == <<calendars, data_dir, m_op, m_format, m_error, m_dup, m_saves>>

pipe_vars == <<p_pc, p_trace, p_ret, p_raised>>

cli_vars == <<c_cmd, c_args, c_exit>>

drv_vars == <<pipe_vars, cli_vars>>

vars == <<now, guard_vars, store_vars, fetch_vars, mgr_vars, drv_vars>>

None == <<>>

\* Python truthiness of an Optional[float]: None and 0.0 are both false.
Truthy(v) == v # None /\ v[1] # 0

-----------------------------------------------------------------------------
(* Bounds of the model *)

MaxRecords == 2
MaxTicks == 2

\* The clock values at which a run may begin (0 is where a simulated clock starts),
\* and the steps by which it advances.
ClockOrigins == {0, 1000}
TickSteps == {1, 30, 270}

\* The configurations (limits.daily_token_budget, limits.execution_window_minutes)
\* and the counts given to record_tokens.
Budgets == {0, 1000, 3000}
Windows == {5, 6, 10}
TokenCounts == {0, 1, 999, 2000}

-----------------------------------------------------------------------------
(* ExecutionGuard *)

BufferMinutes == 5
MinRemainingSecs == 30
MinRemainingTokens == 1000

max_runtime_seconds == (execution_window_minutes - BufferMinutes) * 60

\* elapsed = time.time() - self.start_time if self.start_time else 0
elapsed == IF Truthy(start_time) THEN now - start_time[1] ELSE 0

check_time_remaining ==
    IF ~Truthy(start_time)
    THEN max_runtime_seconds
    ELSE LET el == now - start_time[1]
             remaining == max_runtime_seconds - el
         IN  remaining

should_continue_le ==
    LET remaining_secs == check_time_remaining
        remaining_tokens == daily_token_budget - tokens_used
    IN  IF remaining_secs <= MinRemainingSecs THEN FALSE
        ELSE IF remaining_tokens <= MinRemainingTokens THEN FALSE
        ELSE TRUE

should_continue ==
    LET remaining_secs == check_time_remaining
        remaining_tokens == daily_token_budget - tokens_used
    IN  IF remaining_secs < MinRemainingSecs THEN FALSE
        ELSE IF remaining_tokens < MinRemainingTokens THEN FALSE
        ELSE TRUE

\* (self.tokens_used / self.daily_token_budget) * 100, in whole percent; the
\* division raises ZeroDivisionError when the budget is 0.
budget_pct == (tokens_used * 100) \div daily_token_budget

get_status ==
    [elapsed_seconds |-> elapsed,
     remaining_seconds |-> check_time_remaining,
     tokens_used |-> tokens_used,
     remaining_tokens |-> daily_token_budget - tokens_used,
     budget_exhaustion_pct |-> budget_pct]

force_shutdown ==
    [shutdown_reason |-> "execution_guard_exceeded",
     elapsed_seconds |-> elapsed,
     tokens_used |-> tokens_used,
     timestamp |-> now]

GuardInit ==
    /\ start_time = None
    /\ tokens_used = 0
    /\ daily_token_budget \in Budgets
    /\ execution_window_minutes \in Windows
    /\ g_op = "init"
    /\ g_ret = None
    /\ g_raised = FALSE
    /\ g_sum = 0
    /\ g_records = 0
    /\ g_ticks = 0
    /\ g_stopped = FALSE

\* Every guard operation leaves the configuration alone.
GuardCall(op, ret, raised) ==
    /\ g_op' = op
    /\ g_ret' = ret
    /\ g_raised' = raised
    /\ UNCHANGED <<daily_token_budget, execution_window_minutes, g_ticks, now>>
    /\ UNCHANGED <<store_vars, fetch_vars, mgr_vars, drv_vars>>

Start ==
    /\ start_time' = <<now>>
    /\ GuardCall("start", None, FALSE)
    /\ UNCHANGED <<tokens_used, g_sum, g_records, g_stopped>>

RecordTokensClamped(count) ==
    /\ g_records < MaxRecords
    /\ tokens_used' = IF tokens_used + count > daily_token_budget
                      THEN daily_token_budget ELSE tokens_used + count
    /\ g_sum' = g_sum + count
    /\ g_records' = g_records + 1
    /\ GuardCall("record_tokens", None, daily_token_budget = 0)
    /\ UNCHANGED <<start_time, g_stopped>>

\* The counter is updated before the percentage is computed for the log line,
\* so the update stands when that division raises.
RecordTokens(count) ==
    /\ g_records < MaxRecords
    /\ tokens_used' = tokens_used + count
    /\ g_sum' = g_sum + count
    /\ g_records' = g_records + 1
    /\ GuardCall("record_tokens", None, daily_token_budget = 0)
    /\ UNCHANGED <<start_time, g_stopped>>

ShouldContinue ==
    /\ GuardCall("should_continue", <<should_continue>>, FALSE)
    /\ g_stopped' = (g_stopped \/ ~should_continue)
    /\ UNCHANGED <<start_time, tokens_used, g_sum, g_records>>

CheckTimeRemaining ==
    /\ GuardCall("check_time_remaining", <<check_time_remaining>>, FALSE)
    /\ UNCHANGED <<start_time, tokens_used, g_sum, g_records, g_stopped>>

GetStatus ==
    /\ IF daily_token_budget = 0
       THEN GuardCall("get_status", None, TRUE)
       ELSE GuardCall("get_status", <<get_status>>, FALSE)
    /\ UNCHANGED <<start_time, tokens_used, g_sum, g_records, g_stopped>>

ForceShutdown ==
    /\ GuardCall("force_shutdown", <<force_shutdown>>, FALSE)
    /\ UNCHANGED <<start_time, tokens_used, g_sum, g_records, g_stopped>>

\* The environment: the clock advances between calls (g_op, g_ret and g_raised
\* describe a call only until the state it saw changes).
GuardTick ==
    /\ g_ticks < MaxTicks
    /\ \E d \in TickSteps : now' = now + d
    /\ g_ticks' = g_ticks + 1
    /\ g_op' = "tick"
    /\ g_ret' = None
    /\ g_raised' = FALSE
    /\ UNCHANGED <<start_time, tokens_used, daily_token_budget, execution_window_minutes,
                   g_sum, g_records, g_stopped>>
    /\ UNCHANGED <<store_vars, fetch_vars, mgr_vars, drv_vars>>

-----------------------------------------------------------------------------
(* CalendarEvent *)

\* class Market(Enum), class EventType(Enum): member name -> value
Markets == {"FTSE", "NASDAQ"}

MarketValue(m) == CASE m = "FTSE" -> "ftse" [] m = "NASDAQ" -> "nasdaq"

EventTypes == {"EARNINGS", "DIVIDEND", "SPLIT", "IPO", "CONFERENCE", "ECONOMIC", "MERGER"}

EventTypeValue(t) ==
    CASE t = "EARNINGS" -> "earnings"
      [] t = "DIVIDEND" -> "dividend"
      [] t = "SPLIT" -> "stock_split"
      [] t = "IPO" -> "ipo"
      [] t = "CONFERENCE" -> "conference"
      [] t = "ECONOMIC" -> "economic_indicator"
      [] t = "MERGER" -> "merger_acquisition"

\* Market(value), EventType(value): the member that has the value
MarketOfValue(v) == CHOOSE m \in Markets : MarketValue(m) = v
EventTypeOfValue(v) == CHOOSE t \in EventTypes : EventTypeValue(t) = v

\* CalendarEvent.__init__: the creation timestamp is the clock's value.
CalendarEvent(ticker, mkt, event_type, date, description, metadata) ==
    [ticker |-> ticker, market |-> mkt, event_type |-> event_type, date |-> date,
     description |-> description, timestamp |-> now, metadata |-> metadata]

to_dict(e) ==
    [ticker |-> e.ticker, market |-> MarketValue(e.market),
     event_type |-> EventTypeValue(e.event_type), date |-> e.date,
     description |-> e.description, timestamp |-> e.timestamp, metadata |-> e.metadata]

\* dict.get(key, default)
get(d, key, default) == IF key \in DOMAIN d THEN d[key] ELSE default

\* The record's 'timestamp' is not passed on: the constructor stamps the event anew.
from_dict(data) ==
    CalendarEvent(data.ticker, MarketOfValue(data.market),
                  EventTypeOfValue(data.event_type), data.date, data.description,
                  get(data, "metadata", "none"))

\* from_dict raises KeyError on a record without one of the subscripted keys, and
\* ValueError on a 'market' or 'event_type' that is no value of its Enum.
from_dict_raises(data) ==
    \/ ~({"ticker", "market", "event_type", "date", "description"} \subseteq DOMAIN data)
    \/ data.market \notin {MarketValue(m) : m \in Markets}
    \/ data.event_type \notin {EventTypeValue(t) : t \in EventTypes}

-----------------------------------------------------------------------------
(* MarketCalendar *)

MaxStoreTicks == 1
MaxSaves == 1
MaxBulk == 2

\* A date is a string compared as Python compares strings; it is modelled as the
\* sequence of its characters' codes: "1" is <<1>>, "10" is <<1, 0>>, "2" is <<2>>.
Dates == {<<1>>, <<1, 0>>, <<2>>}

\* The arguments with which events are constructed:
\* <<ticker, market, event_type, date, description, metadata>>.
EventArgs ==
    { <<"AAPL", "NASDAQ", "EARNINGS", <<1>>, "Q1 Earnings", "eps_estimate">>,
      <<"AAPL", "NASDAQ", "EARNINGS", <<1>>, "Q1 Earnings (revised)", "none">>,
      <<"HSBA", "FTSE", "DIVIDEND", <<1, 0>>, "Final Dividend", "none">> }

NewEvent(a) == CalendarEvent(a[1], a[2], a[3], a[4], a[5], a[6])

RECURSIVE SeqsUpTo(_, _)
SeqsUpTo(S, n) ==
    IF n = 0 THEN {<<>>}
    ELSE LET shorter == SeqsUpTo(S, n - 1)
         IN  shorter \cup {Append(q, x) : q \in shorter, x \in S}

\* The lists of arguments of the events given to add_events_bulk
BulkLists == SeqsUpTo(EventArgs, MaxBulk)

\* The format identifiers given to save_calendar.
Formats == {"yaml", "json", "xml"}

EmptyEvents == [t \in {} |-> <<>>]

\* sum(len(e) for e in self.events.values())
RECURSIVE SumLen(_, _)
SumLen(ev, keys) ==
    IF keys = {} THEN 0
    ELSE LET t == CHOOSE k \in keys : TRUE
         IN  Len(ev[t]) + SumLen(ev, keys \ {t})

event_count(ev) == SumLen(ev, DOMAIN ev)

add_event_no_check(ev, event) ==
    LET ev1 == IF event.ticker \notin DOMAIN ev
               THEN [t \in DOMAIN ev \cup {event.ticker} |->
                        IF t \in DOMAIN ev THEN ev[t] ELSE <<>>]
               ELSE ev
    IN  [ev1 EXCEPT ![event.ticker] = Append(@, event)]

add_event_overwrite(ev, event) ==
    LET ev1 == IF event.ticker \notin DOMAIN ev
               THEN [t \in DOMAIN ev \cup {event.ticker} |->
                        IF t \in DOMAIN ev THEN ev[t] ELSE <<>>]
               ELSE ev
        existing == SelectSeq(ev1[event.ticker],
                              LAMBDA e : e.date = event.date
                                         /\ e.event_type = event.event_type)
    IN  IF existing = <<>>
        THEN [ev1 EXCEPT ![event.ticker] = Append(@, event)]
        ELSE [ev1 EXCEPT ![event.ticker] =
                 [i \in 1..Len(@) |->
                     IF @[i].date = event.date /\ @[i].event_type = event.event_type
                     THEN event ELSE @[i]]]

\* MarketCalendar.add_event, as a function of the events mapping
add_event(ev, event) ==
    LET ev1 == IF event.ticker \notin DOMAIN ev
               THEN [t \in DOMAIN ev \cup {event.ticker} |->
                        IF t \in DOMAIN ev THEN ev[t] ELSE <<>>]
               ELSE ev
        existing == SelectSeq(ev1[event.ticker],
                              LAMBDA e : e.date = event.date
                                         /\ e.event_type = event.event_type)
    IN  IF existing = <<>>
        THEN [ev1 EXCEPT ![event.ticker] = Append(@, event)]
        ELSE ev1

RECURSIVE add_events_bulk_reversed(_, _)
add_events_bulk_reversed(ev, list) ==
    IF list = <<>> THEN ev
    ELSE add_event(add_events_bulk_reversed(ev, Tail(list)), Head(list))

\* MarketCalendar.add_events_bulk
RECURSIVE add_events_bulk(_, _)
add_events_bulk(ev, list) ==
    IF list = <<>> THEN ev
    ELSE add_events_bulk(add_event(ev, Head(list)), Tail(list))

\* The document _save_yaml and _save_json write. The order of a dict's keys is
\* not modelled: 'tickers' is the set of keys, 'events' a function on it.
DocumentOf(mkt, ev) ==
    [market |-> MarketValue(mkt),
     last_updated |-> now,
     event_count |-> event_count(ev),
     tickers |-> DOMAIN ev,
     events |-> [t \in DOMAIN ev |-> [i \in 1..Len(ev[t]) |-> to_dict(ev[t][i])]]]

Document == DocumentOf(market, events)

\* The content of a file is the document it parses to. A file that is not YAML is
\* [text |-> its text]: yaml.safe_load raises yaml.YAMLError on it. An empty file
\* parses to None, which `or {}` makes the empty mapping.
Unparseable == [text |-> "events: [unclosed"]

EmptyDocument == [k \in {} |-> <<>>]

safe_load_raises(content) == "text" \in DOMAIN content

\* What _load_local_calendar makes of a document
LoadedEvents(data) ==
    LET ticker_events == get(data, "events", EmptyEvents)
    IN  [t \in DOMAIN ticker_events |->
            [i \in 1..Len(ticker_events[t]) |-> from_dict(ticker_events[t][i])]]

\* _load_local_calendar has no except clause: what safe_load or from_dict raises
\* leaves MarketCalendar.__init__ as it is.
load_raises(content) ==
    \/ safe_load_raises(content)
    \/ LET ticker_events == get(content, "events", EmptyEvents)
       IN  \E t \in DOMAIN ticker_events : \E i \in 1..Len(ticker_events[t]) :
              from_dict_raises(ticker_events[t][i])

\* The dedup key of an event
Key(e) == <<e.ticker, e.date, e.event_type>>

\* The keys of the events a store holds
StoredKeys(ev) == UNION {{Key(ev[t][i]) : i \in 1..Len(ev[t])} : t \in DOMAIN ev}

\* The keys that occur at more than one place of a list of events
RepeatedKeys(list) ==
    {Key(list[i]) : i \in {j \in 1..Len(list) :
                              \E k \in 1..Len(list) : k # j /\ Key(list[k]) = Key(list[j])}}

\* A call of a MarketCalendar method: what is recorded of it.
StoreCallWith(op, dup, raised, arg, ret) ==
    /\ s_op' = op
    /\ s_dup' = dup
    /\ s_raised' = raised
    /\ s_arg' = arg
    /\ s_ret' = ret
    /\ UNCHANGED <<market, s_ticks, now>>
    /\ UNCHANGED <<guard_vars, fetch_vars, mgr_vars, drv_vars>>

StoreCall(op, dup, raised) == StoreCallWith(op, dup, raised, None, None)

\* There is an instance to call: MarketCalendar.__init__ has returned one.
Live == s_op # "none" /\ ~(s_op = "construct" /\ s_raised)

\* MarketCalendar.__init__ for the market and data directory of the live instance:
\* a fresh instance takes its place.
\* When the load raises, so does __init__ and the caller gets no instance.
Construct ==
    /\ s_op # "construct"
    /\ IF yaml_file = None
       THEN /\ events' = EmptyEvents
            /\ last_updated' = None
            /\ StoreCall("construct", {}, FALSE)
       ELSE IF load_raises(yaml_file[1])
       THEN /\ events' = EmptyEvents
            /\ last_updated' = None
            /\ StoreCall("construct", {}, TRUE)
       ELSE /\ events' = LoadedEvents(yaml_file[1])
            /\ last_updated' = IF "last_updated" \in DOMAIN yaml_file[1]
                               THEN <<yaml_file[1].last_updated>>
                               ELSE None
            /\ StoreCall("construct", {}, FALSE)
    /\ UNCHANGED <<yaml_file, json_file, saved, s_saves>>

AddEvent(a) ==
    LET event == NewEvent(a)
    IN  /\ Live
        /\ events' = add_event(events, event)
        /\ StoreCall("add_event", {}, FALSE)
        /\ UNCHANGED <<last_updated, yaml_file, json_file, saved, s_saves>>

AddEventsBulk(as) ==
    LET list == [i \in 1..Len(as) |-> NewEvent(as[i])]
    IN  /\ Live
        /\ events' = add_events_bulk(events, list)
        /\ StoreCall("add_events_bulk", RepeatedKeys(list), FALSE)
        /\ UNCHANGED <<last_updated, yaml_file, json_file, saved, s_saves>>

SaveCalendar(format_type) ==
    /\ Live
    /\ s_saves < MaxSaves
    /\ s_saves' = s_saves + 1
    /\ IF format_type = "yaml"
       THEN /\ yaml_file' = <<Document>>
            /\ saved' = <<[format |-> format_type, events |-> events]>>
            /\ StoreCall("save_calendar", {}, FALSE)
            /\ UNCHANGED json_file
       ELSE IF format_type = "json"
       THEN /\ json_file' = <<Document>>
            /\ saved' = <<[format |-> format_type, events |-> events]>>
            /\ StoreCall("save_calendar", {}, FALSE)
            /\ UNCHANGED yaml_file
       ELSE /\ StoreCall("save_calendar", {}, TRUE)
            /\ UNCHANGED <<yaml_file, json_file, saved>>
    /\ UNCHANGED <<events, last_updated>>

\* save_calendar('yaml') as the update cycle calls it, once per cycle
SaveYaml ==
    /\ Live
    /\ yaml_file' = <<Document>>
    /\ saved' = <<[format |-> "yaml", events |-> events]>>
    /\ s_saves' = s_saves + 1
    /\ StoreCall("save_calendar", {}, FALSE)
    /\ UNCHANGED <<events, last_updated, json_file>>

StoreTick ==
    /\ s_ticks < MaxStoreTicks
    /\ s_ticks' = s_ticks + 1
    /\ now' = now + 1
    /\ UNCHANGED <<market, events, last_updated, yaml_file, json_file,
                   s_op, s_dup, s_raised, s_arg, s_ret, saved, s_saves>>
    /\ UNCHANGED <<guard_vars, fetch_vars, mgr_vars, drv_vars>>

\* x <= y on strings as Python compares them: character by character, a proper
\* prefix before the longer string
RECURSIVE StrLeq(_, _)
StrLeq(x, y) ==
    IF x = <<>> THEN TRUE
    ELSE IF y = <<>> THEN FALSE
    ELSE IF Head(x) < Head(y) THEN TRUE
    ELSE IF Head(x) > Head(y) THEN FALSE
    ELSE StrLeq(Tail(x), Tail(y))

\* min(...) and max(...) of a non-empty set of strings
StrMin(S) == CHOOSE d \in S : \A d2 \in S : StrLeq(d, d2)
StrMax(S) == CHOOSE d \in S : \A d2 \in S : StrLeq(d2, d)

get_events_by_ticker(ev, ticker) == get(ev, ticker, <<>>)

get_events_by_date_range_exclusive(ev, start_date, end_date) ==
    LET filtered == [t \in DOMAIN ev |->
                        SelectSeq(ev[t], LAMBDA e : /\ StrLeq(start_date, e.date)
                                                    /\ StrLeq(e.date, end_date)
                                                    /\ e.date # end_date)]
    IN  [t \in {u \in DOMAIN ev : filtered[u] # <<>>} |-> filtered[t]]

\* A ticker is in the result when its filtered list is not empty.
get_events_by_date_range(ev, start_date, end_date) ==
    LET filtered == [t \in DOMAIN ev |->
                        SelectSeq(ev[t], LAMBDA e : /\ StrLeq(start_date, e.date)
                                                    /\ StrLeq(e.date, end_date))]
    IN  [t \in {u \in DOMAIN ev : filtered[u] # <<>>} |-> filtered[t]]

get_events_by_type_keep_empty(ev, event_type) ==
    [t \in DOMAIN ev |-> SelectSeq(ev[t], LAMBDA e : e.event_type = event_type)]

get_events_by_type(ev, event_type) ==
    LET filtered == [t \in DOMAIN ev |->
                        SelectSeq(ev[t], LAMBDA e : e.event_type = event_type)]
    IN  [t \in {u \in DOMAIN ev : filtered[u] # <<>>} |-> filtered[t]]

\* get_summary's all_events: the lists of self.events.values(), one after another
\* (in an order of the keys; the order of a dict's keys is not modelled)
RECURSIVE all_events(_, _)
all_events(ev, keys) ==
    IF keys = {} THEN <<>>
    ELSE LET t == CHOOSE k \in keys : TRUE
         IN  ev[t] \o all_events(ev, keys \ {t})

event_types_flags(list, n) ==
    [v \in {EventTypeValue(list[i].event_type) : i \in 1..n} |-> 1]

\* get_summary's event_types after the first n events of the list
RECURSIVE event_types(_, _)
event_types(list, n) ==
    IF n = 0 THEN [v \in {} |-> 0]
    ELSE LET h == event_types(list, n - 1)
             v == EventTypeValue(list[n].event_type)
         IN  [k \in DOMAIN h \cup {v} |-> IF k = v THEN get(h, v, 0) + 1 ELSE h[k]]

date_range_stored_order(list) ==
    [first |-> IF list # <<>> THEN <<list[1].date>> ELSE None,
     last |-> IF list # <<>> THEN <<list[Len(list)].date>> ELSE None]

date_range(list) ==
    LET dates == {list[i].date : i \in 1..Len(list)}
    IN  [first |-> IF list # <<>> THEN <<StrMin(dates)>> ELSE None,
         last |-> IF list # <<>> THEN <<StrMax(dates)>> ELSE None]

get_summary ==
    LET list == all_events(events, DOMAIN events)
    IN  [market |-> MarketValue(market),
         total_tickers |-> Cardinality(DOMAIN events),
         total_events |-> Len(list),
         event_types |-> event_types(list, Len(list)),
         date_range |-> date_range(list),
         last_updated |-> last_updated]

\* A query leaves the instance and the files as they are.
StoreQuery(op, arg, ret) ==
    /\ StoreCallWith(op, {}, FALSE, arg, ret)
    /\ UNCHANGED <<events, last_updated, yaml_file, json_file, saved, s_saves>>

GetEventsByTickerSetDefault(ticker) ==
    /\ Live
    /\ events' = IF ticker \in DOMAIN events THEN events
                 ELSE [t \in DOMAIN events \cup {ticker} |->
                          IF t \in DOMAIN events THEN events[t] ELSE <<>>]
    /\ StoreCallWith("get_events_by_ticker", {}, FALSE, <<ticker>>,
                     <<get_events_by_ticker(events, ticker)>>)
    /\ UNCHANGED <<last_updated, yaml_file, json_file, saved, s_saves>>

GetEventsByTicker(ticker) ==
    /\ Live
    /\ StoreQuery("get_events_by_ticker", <<ticker>>,
                  <<get_events_by_ticker(events, ticker)>>)

GetEventsByDateRange(start_date, end_date) ==
    /\ Live
    /\ StoreQuery("get_events_by_date_range", <<start_date, end_date>>,
                  <<get_events_by_date_range(events, start_date, end_date)>>)

GetEventsByType(event_type) ==
    /\ Live
    /\ StoreQuery("get_events_by_type", <<event_type>>,
                  <<get_events_by_type(events, event_type)>>)

GetSummary ==
    /\ Live
    /\ StoreQuery("get_summary", None, <<get_summary>>)

\* A calendar not yet used: the state MarketCalendar.__init__ leaves when the data
\* directory holds no file.
StoreInit ==
    /\ market \in Markets
    /\ events = EmptyEvents
    /\ last_updated = None
    /\ yaml_file = None
    /\ json_file = None
    /\ s_op = "construct"
    /\ s_dup = {}
    /\ s_raised = FALSE
    /\ s_arg = None
    /\ s_ret = None
    /\ saved = None
    /\ s_ticks = 0
    /\ s_saves = 0

StoreIdle ==
    /\ market = "NASDAQ"
    /\ events = EmptyEvents
    /\ last_updated = None
    /\ yaml_file = None
    /\ json_file = None
    /\ s_op = "construct"
    /\ s_dup = {}
    /\ s_raised = FALSE
    /\ s_arg = None
    /\ s_ret = None
    /\ saved = None
    /\ s_ticks = 0
    /\ s_saves = 0

\* The events the queries are asked about:
\* <<ticker, market, event_type, date, description, metadata>>.
QueryArgs ==
    { <<"AAPL", "NASDAQ", "EARNINGS", <<1>>, "Q1 Earnings", "eps_estimate">>,
      <<"AAPL", "NASDAQ", "DIVIDEND", <<2>>, "Dividend", "none">>,
      <<"HSBA", "FTSE", "DIVIDEND", <<1, 0>>, "Final Dividend", "none">>,
      <<"HSBA", "FTSE", "EARNINGS", <<2>>, "Full Year Results", "none">> }

Tickers == {"AAPL", "HSBA", "MSFT", "TSLA"}

\* A calendar.yaml as _save_yaml left it in an earlier run
StoredDocument ==
    [market |-> "nasdaq",
     last_updated |-> 900,
     event_count |-> 1,
     tickers |-> {"MSFT"},
     events |-> [t \in {"MSFT"} |->
                   <<[ticker |-> "MSFT", market |-> "nasdaq", event_type |-> "earnings",
                      date |-> <<1, 0>>, description |-> "Q2 Earnings",
                      timestamp |-> 900, metadata |-> "none"]>>]]

\* A calendar.yaml edited by hand: a ticker with no events; a record whose
\* event_type is no EventType value; a record without 'description'
IdleDocument == [last_updated |-> 900, events |-> [t \in {"IDLE"} |-> <<>>]]

BadTypeDocument ==
    [last_updated |-> 900,
     events |-> [t \in {"AAPL"} |->
                   <<[ticker |-> "AAPL", market |-> "nasdaq", event_type |-> "buyback",
                      date |-> <<1>>, description |-> "Buyback", timestamp |-> 900,
                      metadata |-> "none"]>>]]

MissingKeyDocument ==
    [last_updated |-> 900,
     events |-> [t \in {"AAPL"} |->
                   <<[ticker |-> "AAPL", market |-> "nasdaq", event_type |-> "earnings",
                      date |-> <<1>>, timestamp |-> 900]>>]]

\* What the data directory may hold when MarketCalendar.__init__ runs
GivenFiles ==
    {None, <<EmptyDocument>>, <<StoredDocument>>, <<IdleDocument>>,
     <<Unparseable>>, <<BadTypeDocument>>, <<MissingKeyDocument>>}

\* A data directory and no instance yet
StoreAbsent ==
    /\ market \in Markets
    /\ events = EmptyEvents
    /\ last_updated = None
    /\ yaml_file \in GivenFiles
    /\ json_file = None
    /\ s_op = "none"
    /\ s_dup = {}
    /\ s_raised = FALSE
    /\ s_arg = None
    /\ s_ret = None
    /\ saved = None
    /\ s_ticks = 0
    /\ s_saves = 0

GuardIdle ==
    /\ start_time = None
    /\ tokens_used = 0
    /\ daily_token_budget = 3000
    /\ execution_window_minutes = 10
    /\ g_op = "init"
    /\ g_ret = None
    /\ g_raised = FALSE
    /\ g_sum = 0
    /\ g_records = 0
    /\ g_ticks = 0
    /\ g_stopped = FALSE

-----------------------------------------------------------------------------
(* CalendarFetcher *)

NumSources == 3
MaxFetches == 2

\* self.sources, in priority order
SourceNames == <<"A", "B", "C", "D", "E">>
sources == SubSeq(SourceNames, 1, NumSources)

\* What a source does in one call of fetch_all_calendars: health_check returns
\* True ("true") or False ("false") or raises ("raise"); a fetch method returns
\* its events ("data") or an empty list ("empty") or raises ("raise").
Behaviour(h, e, d, x) == [health |-> h, earnings |-> e, dividends |-> d, economic |-> x]

Behaviours ==
    { Behaviour("false", "data", "data", "data"),
      Behaviour("raise", "data", "data", "data"),
      Behaviour("true", "data", "data", "data"),
      Behaviour("true", "empty", "empty", "empty"),
      Behaviour("true", "raise", "data", "data"),
      Behaviour("true", "data", "raise", "data"),
      Behaviour("true", "data", "data", "raise"),
      Behaviour("true", "data", "data", "empty"),
      Behaviour("true", "data", "empty", "data") }

\* The events source i holds, as a DataSource adapter builds them: the description
\* names the source. Economic events are built for Market.NASDAQ whatever the market.
SourceEvents(i, kind, mkt) ==
    CASE kind = "earnings" ->
            <<CalendarEvent("AAPL", mkt, "EARNINGS", <<1>>, sources[i], "none")>>
      [] kind = "dividends" ->
            <<CalendarEvent("AAPL", mkt, "DIVIDEND", <<1, 0>>, sources[i], "none")>>
      [] kind = "economic" ->
            <<CalendarEvent("MACRO", "NASDAQ", "ECONOMIC", <<2>>, sources[i], "none")>>

\* What a fetch method of source i returns when it does not raise
Fetched(i, kind, mkt) ==
    IF behaviour[i][kind] = "data" THEN SourceEvents(i, kind, mkt) ELSE <<>>

Called(i, method, out) == [src |-> i, method |-> method, out |-> out]

EmptyResult == [k \in {} |-> <<>>]

\* result[key] = value
SetItem(d, key, value) ==
    [k \in DOMAIN d \cup {key} |-> IF k = key THEN value ELSE d[k]]

\* The loop's step to its next source, or out of the loop after the last one
Continue ==
    IF f_idx < Len(sources)
    THEN /\ f_idx' = f_idx + 1
         /\ f_pc' = "health"
    ELSE /\ f_idx' = f_idx
         /\ f_pc' = "return"

BreakContinues == Continue

\* break  # Use first available source
Break ==
    /\ f_idx' = f_idx
    /\ f_pc' = "return"

OnExceptionSurface ==
    /\ f_idx' = f_idx
    /\ f_pc' = "raised"

\* except Exception as e: ... continue
OnException == Continue

FetchCall(i, method, out) ==
    /\ f_calls' = Append(f_calls, Called(i, method, out))
    /\ UNCHANGED <<behaviour, f_store0, f_runs, now>>
    /\ UNCHANGED <<guard_vars, store_vars, mgr_vars, drv_vars>>

\* populate_calendar calls fetch_all_calendars(calendar.market, days_ahead)
PopulateBegin ==
    /\ f_pc \in {"idle", "done"}
    /\ f_runs < MaxFetches
    /\ f_runs' = f_runs + 1
    /\ result' = EmptyResult
    /\ f_earnings' = <<>>
    /\ f_calls' = <<>>
    /\ f_store0' = events
    /\ f_idx' = 1
    /\ f_pc' = "health"
    /\ UNCHANGED <<behaviour, now>>
    /\ UNCHANGED <<guard_vars, store_vars, mgr_vars, drv_vars>>

HealthCheck ==
    /\ f_pc = "health"
    /\ LET out == behaviour[f_idx].health
       IN  /\ FetchCall(f_idx, "health_check", out)
           /\ CASE out = "true" -> f_pc' = "earnings" /\ f_idx' = f_idx
                [] out = "false" -> Continue
                [] out = "raise" -> OnException
    /\ UNCHANGED <<result, f_earnings>>

FetchEarnings ==
    /\ f_pc = "earnings"
    /\ LET out == behaviour[f_idx].earnings
       IN  /\ FetchCall(f_idx, "fetch_earnings_calendar", out)
           /\ IF out = "raise"
              THEN OnException /\ UNCHANGED f_earnings
              ELSE /\ f_earnings' = Fetched(f_idx, "earnings", market)
                   /\ f_pc' = "dividends"
                   /\ f_idx' = f_idx
    /\ UNCHANGED result

\* The dividends are fetched and both lists are put into the result.
FetchDividends ==
    /\ f_pc = "dividends"
    /\ LET out == behaviour[f_idx].dividends
       IN  /\ FetchCall(f_idx, "fetch_dividend_calendar", out)
           /\ IF out = "raise"
              THEN OnException /\ UNCHANGED result
              ELSE LET dividends == Fetched(f_idx, "dividends", market)
                       r == SetItem(SetItem(result, "earnings", f_earnings),
                                    "dividends", dividends)
                   IN  /\ result' = r
                       /\ IF "economic" \notin DOMAIN r
                          THEN f_pc' = "economic" /\ f_idx' = f_idx
                          ELSE Break
    /\ UNCHANGED f_earnings

FetchEconomicUntilData ==
    /\ f_pc = "economic"
    /\ LET out == behaviour[f_idx].economic
       IN  /\ FetchCall(f_idx, "fetch_economic_calendar", out)
           /\ IF out = "raise"
              THEN OnException /\ UNCHANGED result
              ELSE IF out = "empty"
              THEN Continue /\ UNCHANGED result
              ELSE /\ result' = SetItem(result, "economic",
                                        Fetched(f_idx, "economic", market))
                   /\ Break
    /\ UNCHANGED f_earnings

FetchEconomic ==
    /\ f_pc = "economic"
    /\ LET out == behaviour[f_idx].economic
       IN  /\ FetchCall(f_idx, "fetch_economic_calendar", out)
           /\ IF out = "raise"
              THEN OnException /\ UNCHANGED result
              ELSE /\ result' = SetItem(result, "economic",
                                        Fetched(f_idx, "economic", market))
                   /\ Break
    /\ UNCHANGED f_earnings

\* for event_list in calendars.values(): all_events.extend(event_list)
\* (a dict keeps its keys in the order of their first insertion)
AllEvents(r) ==
    (IF "earnings" \in DOMAIN r THEN r["earnings"] ELSE <<>>)
    \o (IF "dividends" \in DOMAIN r THEN r["dividends"] ELSE <<>>)
    \o (IF "economic" \in DOMAIN r THEN r["economic"] ELSE <<>>)

\* fetch_all_calendars has returned: populate_calendar adds what it got.
Populate ==
    /\ f_pc = "return"
    /\ events' = add_events_bulk(events, AllEvents(result))
    /\ s_op' = "add_events_bulk"
    /\ s_dup' = RepeatedKeys(AllEvents(result))
    /\ s_raised' = FALSE
    /\ s_arg' = None
    /\ s_ret' = None
    /\ f_pc' = "done"
    /\ UNCHANGED <<market, last_updated, yaml_file, json_file, saved, s_ticks, s_saves>>
    /\ UNCHANGED <<behaviour, f_idx, result, f_earnings, f_calls, f_store0, f_runs, now>>
    /\ UNCHANGED <<guard_vars, mgr_vars, drv_vars>>

FetchIdle ==
    /\ behaviour = [i \in 1..Len(sources) |-> Behaviour("false", "data", "data", "data")]
    /\ f_pc = "idle"
    /\ f_idx = 1
    /\ result = EmptyResult
    /\ f_earnings = <<>>
    /\ f_calls = <<>>
    /\ f_store0 = EmptyEvents
    /\ f_runs = 0

FetchInit ==
    /\ behaviour \in [1..Len(sources) -> Behaviours]
    /\ f_pc = "idle"
    /\ f_idx = 1
    /\ result = EmptyResult
    /\ f_earnings = <<>>
    /\ f_calls = <<>>
    /\ f_store0 = EmptyEvents
    /\ f_runs = 0

\* The calendars populate_calendar is given: a new one, and one that holds an
\* event of an earlier run (with the key of the sources' earnings event).
EarlierEvent == CalendarEvent("AAPL", "NASDAQ", "EARNINGS", <<1>>, "earlier", "none")

StoreGiven ==
    /\ market \in Markets
    /\ events \in {EmptyEvents, add_event(EmptyEvents, EarlierEvent)}
    /\ last_updated = None
    /\ yaml_file = None
    /\ json_file = None
    /\ s_op = "construct"
    /\ s_dup = {}
    /\ s_raised = FALSE
    /\ s_arg = None
    /\ s_ret = None
    /\ saved = None
    /\ s_ticks = 0
    /\ s_saves = 0

-----------------------------------------------------------------------------
(* The update cycle *)

\* What the data directory may hold before the first cycle
CycleFiles == {None, <<StoredDocument>>}

\* A data directory and no instance yet; the sources are what they are for all
\* the cycles.
CycleInit ==
    /\ market \in Markets
    /\ events = EmptyEvents
    /\ last_updated = None
    /\ yaml_file \in CycleFiles
    /\ json_file = None
    /\ s_op = "none"
    /\ s_dup = {}
    /\ s_raised = FALSE
    /\ s_arg = None
    /\ s_ret = None
    /\ saved = None
    /\ s_ticks = 0
    /\ s_saves = 0

\* mgr = MarketCalendarManager(): the calendar is constructed on its directory
CycleConstruct ==
    /\ s_op \in {"none", "save_calendar"}
    /\ Construct

\* fetcher.populate_calendar(calendar, args.days) begins
CyclePopulate ==
    /\ s_op = "construct"
    /\ Live
    /\ PopulateBegin

\* mgr.save_all('yaml') after populate_calendar has returned
CycleSave ==
    /\ s_op = "add_events_bulk"
    /\ f_pc = "done"
    /\ SaveYaml

\* Time passes between one run of the cycle and the next.
CycleTick ==
    /\ s_op = "save_calendar"
    /\ StoreTick

-----------------------------------------------------------------------------
(* MarketCalendarManager *)

MaxManagerSaves == 1

\* list(Market): the order of self.calendars
MarketOrder == <<"FTSE", "NASDAQ">>

\* The events given to add_event_to_market
ManagerArgs ==
    { <<"AAPL", "NASDAQ", "EARNINGS", <<1>>, "Q1 Earnings", "eps_estimate">>,
      <<"AAPL", "NASDAQ", "EARNINGS", <<1>>, "Q1 Earnings (revised)", "none">>,
      <<"HSBA", "FTSE", "DIVIDEND", <<1, 0>>, "Final Dividend", "none">> }

NoFiles == [yaml |-> None, json |-> None]

\* MarketCalendar.__init__ on a data directory: the instance it makes
Loaded(dir) ==
    IF dir.yaml = None
    THEN [events |-> EmptyEvents, last_updated |-> None]
    ELSE [events |-> LoadedEvents(dir.yaml[1]),
          last_updated |-> IF "last_updated" \in DOMAIN dir.yaml[1]
                           THEN <<dir.yaml[1].last_updated>>
                           ELSE None]

save_calendar_else_yaml(dir, mkt, ev, format_type) ==
    IF format_type = "json"
    THEN [dir |-> [dir EXCEPT !.json = <<DocumentOf(mkt, ev)>>], error |-> None]
    ELSE [dir |-> [dir EXCEPT !.yaml = <<DocumentOf(mkt, ev)>>], error |-> None]

\* MarketCalendar.save_calendar of the calendar of market mkt, with events ev, on
\* its data directory: the directory it leaves and the error it raises
save_calendar(dir, mkt, ev, format_type) ==
    IF format_type = "yaml"
    THEN [dir |-> [dir EXCEPT !.yaml = <<DocumentOf(mkt, ev)>>], error |-> None]
    ELSE IF format_type = "json"
    THEN [dir |-> [dir EXCEPT !.json = <<DocumentOf(mkt, ev)>>], error |-> None]
    ELSE [dir |-> dir, error |-> <<"ValueError">>]

\* MarketCalendarManager.save_all after the first n of self.calendars.values():
\* an error of save_calendar ends the loop.
RECURSIVE save_all(_, _, _, _)
save_all(dirs, cals, format_type, n) ==
    IF n = 0 THEN [dirs |-> dirs, error |-> None]
    ELSE LET before == save_all(dirs, cals, format_type, n - 1)
             m == MarketOrder[n]
             r == save_calendar(before.dirs[m], m, cals[m].events, format_type)
         IN  IF before.error # None THEN before
             ELSE [dirs |-> [before.dirs EXCEPT ![m] = r.dir], error |-> r.error]

\* MarketCalendarManager.__init__ on data directories without files
ManagerInit ==
    /\ calendars = [m \in Markets |-> [events |-> EmptyEvents, last_updated |-> None]]
    /\ data_dir = [m \in Markets |-> NoFiles]
    /\ m_op = "construct"
    /\ m_format = None
    /\ m_error = None
    /\ m_dup = {}
    /\ m_saves = 0

ManagerCallWith(op, format_type, error, dup) ==
    /\ m_op' = op
    /\ m_format' = format_type
    /\ m_error' = error
    /\ m_dup' = dup
    /\ UNCHANGED <<now, guard_vars, store_vars, fetch_vars, drv_vars>>

ManagerCall(op, format_type, error) == ManagerCallWith(op, format_type, error, {})

\* MarketCalendarManager.__init__ on the data directories as they are: the load of
\* a calendar that raises leaves no manager.
ManagerConstruct ==
    /\ m_op # "construct"
    /\ IF \E m \in Markets : data_dir[m].yaml # None /\ load_raises(data_dir[m].yaml[1])
       THEN /\ calendars' = [m \in Markets |->
                                [events |-> EmptyEvents, last_updated |-> None]]
            /\ ManagerCall("construct", None, <<"LoadError">>)
       ELSE /\ calendars' = [m \in Markets |-> Loaded(data_dir[m])]
            /\ ManagerCall("construct", None, None)
    /\ UNCHANGED <<data_dir, m_saves>>

ManagerLive == ~(m_op = "construct" /\ m_error # None)

AddEventToMarket(mkt, a) ==
    /\ ManagerLive
    /\ calendars' = [calendars EXCEPT ![mkt].events = add_event(@, NewEvent(a))]
    /\ ManagerCallWith("add_event_to_market", None, None,
                       StoredKeys(calendars[mkt].events) \cap {Key(NewEvent(a))})
    /\ UNCHANGED <<data_dir, m_saves>>

\* get_calendar(mkt).save_calendar(format_type)
SaveCalendarOf(mkt, format_type) ==
    LET r == save_calendar(data_dir[mkt], mkt, calendars[mkt].events, format_type)
    IN  /\ ManagerLive
        /\ m_saves < MaxManagerSaves
        /\ m_saves' = m_saves + 1
        /\ data_dir' = [data_dir EXCEPT ![mkt] = r.dir]
        /\ ManagerCall("save_calendar", <<format_type>>, r.error)
        /\ UNCHANGED calendars

SaveAll(format_type) ==
    LET r == save_all(data_dir, calendars, format_type, Len(MarketOrder))
    IN  /\ ManagerLive
        /\ m_saves < MaxManagerSaves
        /\ m_saves' = m_saves + 1
        /\ data_dir' = r.dirs
        /\ ManagerCall("save_all", <<format_type>>, r.error)
        /\ UNCHANGED calendars

-----------------------------------------------------------------------------
(* run_full_pipeline *)

\* The configurations of config.yaml the runs are given, and the seconds a stage
\* may take.
PipelineBudgets == {0, 1099, 1100, 1250, 3249, 3250}
PipelineWindows == {6, 10}
StageSecs == {1, 100}

Stages == <<"fetch", "normalize", "llm", "validate">>

\* The placeholder token count recorded after a stage
StageTokens(stage) ==
    CASE stage = "fetch" -> 100
      [] stage = "normalize" -> 150
      [] stage = "llm" -> 2000

\* The stage that follows in the text of run_full_pipeline
NextStage(stage) ==
    CASE stage = "fetch" -> "normalize"
      [] stage = "normalize" -> "llm"
      [] stage = "llm" -> "validate"

At(at, stage) == [at |-> at, stage |-> stage]

Entry(kind, stage, count, ok) == [kind |-> kind, stage |-> stage, count |-> count, ok |-> ok]

\* The guard before setup_pipeline_guard has made it, on a given configuration
PipelineGuardInit ==
    /\ start_time = None
    /\ tokens_used = 0
    /\ daily_token_budget \in PipelineBudgets
    /\ execution_window_minutes \in PipelineWindows
    /\ g_op = "init"
    /\ g_ret = None
    /\ g_raised = FALSE
    /\ g_sum = 0
    /\ g_records = 0
    /\ g_ticks = 0
    /\ g_stopped = FALSE

PipelineInit ==
    /\ p_pc = At("idle", "none")
    /\ p_trace = <<>>
    /\ p_ret = None
    /\ p_raised = FALSE

\* What a step of the run leaves alone
PipelineFrame ==
    /\ UNCHANGED <<daily_token_budget, execution_window_minutes,
                   g_op, g_ret, g_raised, g_sum, g_records, g_ticks, g_stopped>>
    /\ UNCHANGED <<store_vars, fetch_vars, mgr_vars, cli_vars>>

\* guard = setup_pipeline_guard(config_path): ExecutionGuard(config), guard.start()
SetupPipelineGuard ==
    /\ p_pc = At("idle", "none")
    /\ start_time' = <<now>>
    /\ p_pc' = At("stage", "fetch")
    /\ UNCHANGED <<now, tokens_used, p_trace, p_ret, p_raised>>
    /\ PipelineFrame

\* A stage (its function and the save of what it made) takes its time and returns
\* or raises; after validate the status is reported.
RunStage(stage) ==
    /\ p_pc = At("stage", stage)
    /\ \E d \in StageSecs : now' = now + d
    /\ \E ok \in BOOLEAN :
          /\ p_trace' = Append(p_trace, Entry("stage", stage, 0, ok))
          /\ p_pc' = IF ~ok THEN At("except", stage)
                     ELSE IF stage = "validate" THEN At("report", stage)
                     ELSE At("record", stage)
    /\ UNCHANGED <<start_time, tokens_used, p_ret, p_raised>>
    /\ PipelineFrame

\* guard.record_tokens(count): the count is added before the percentage of the log
\* line is computed, which raises ZeroDivisionError on a budget of 0.
RecordStageTokens ==
    /\ p_pc.at = "record"
    /\ LET count == StageTokens(p_pc.stage)
           ok == daily_token_budget # 0
       IN  /\ tokens_used' = tokens_used + count
           /\ p_trace' = Append(p_trace, Entry("record", p_pc.stage, count, ok))
           /\ p_pc' = IF ok THEN At("poll", p_pc.stage) ELSE At("except", p_pc.stage)
    /\ UNCHANGED <<now, start_time, p_ret, p_raised>>
    /\ PipelineFrame

PollGuardAdvisory ==
    /\ p_pc.at = "poll"
    /\ p_trace' = Append(p_trace, Entry("poll", p_pc.stage, 0, should_continue))
    /\ p_pc' = At("stage", NextStage(p_pc.stage))
    /\ UNCHANGED <<now, start_time, tokens_used, p_ret, p_raised>>
    /\ PipelineFrame

\* if not guard.should_continue(): return {"status": "halted" / "partial", ...}
PollGuard ==
    /\ p_pc.at = "poll"
    /\ p_trace' = Append(p_trace, Entry("poll", p_pc.stage, 0, should_continue))
    /\ IF should_continue
       THEN /\ p_pc' = At("stage", NextStage(p_pc.stage))
            /\ UNCHANGED p_ret
       ELSE /\ p_pc' = At("returned", p_pc.stage)
            /\ p_ret' = IF p_pc.stage = "llm"
                        THEN <<[status |-> "partial", reason |-> "execution_guard",
                                steps_completed |-> 3]>>
                        ELSE <<[status |-> "halted", reason |-> "execution_guard"]>>
    /\ UNCHANGED <<now, start_time, tokens_used, p_raised>>
    /\ PipelineFrame

\* status = guard.get_status(); return {"status": "success", ...}
ReportStatus ==
    /\ p_pc.at = "report"
    /\ IF daily_token_budget = 0
       THEN /\ p_pc' = At("except", p_pc.stage)
            /\ UNCHANGED p_ret
       ELSE /\ p_pc' = At("returned", p_pc.stage)
            /\ p_ret' = <<[status |-> "success", execution_guard |-> get_status,
                           validation |-> "validation_report"]>>
    /\ UNCHANGED <<now, start_time, tokens_used, p_trace, p_raised>>
    /\ PipelineFrame

\* except Exception as e: return {"status": "error", ..., "execution_guard":
\* guard.get_status()}: what get_status raises there leaves run_full_pipeline.
Except ==
    /\ p_pc.at = "except"
    /\ IF daily_token_budget = 0
       THEN /\ p_pc' = At("raised", p_pc.stage)
            /\ p_raised' = TRUE
            /\ UNCHANGED p_ret
       ELSE /\ p_pc' = At("returned", p_pc.stage)
            /\ p_ret' = <<[status |-> "error", error |-> "exception",
                           execution_guard |-> get_status]>>
            /\ UNCHANGED p_raised
    /\ UNCHANGED <<now, start_time, tokens_used, p_trace>>
    /\ PipelineFrame

-----------------------------------------------------------------------------
(* The calendar commands: tools/update_calendars.py and tools/query_calendars.py *)

\* The values argparse accepts for --market, --export and --type
MarketChoices == {"ftse", "nasdaq", "all"}
ExportChoices == {"yaml", "json"}
TypeChoices == {"earnings", "dividend", "split", "ipo", "conference", "economic", "merger"}

\* The --ticker and --type options, <<>> when not given
TickerOptions == {None, <<"AAPL">>}
TypeOptions == {None} \cup {<<v>> : v \in TypeChoices}

\* list(Market) if args.market == 'all', else [Market(args.market)]
MarketsOf(choice) == IF choice = "all" THEN Markets ELSE {MarketOfValue(choice)}

\* EventType(value) raises ValueError when no member has the value.
EventType_raises(value) == value \notin {EventTypeValue(t) : t \in EventTypes}

\* mgr = MarketCalendarManager() raises what the load of a calendar raises.
manager_raises ==
    \E m \in Markets : data_dir[m].yaml # None /\ load_raises(data_dir[m].yaml[1])

\* What fetcher.populate_calendar does to a market's calendar in one update: it
\* raises, or fetches nothing, or fetches the first source's events.
PopulateOutcomes == {"raise", "empty", "events"}

UpdateEvents(mkt) ==
    SourceEvents(1, "earnings", mkt) \o SourceEvents(1, "dividends", mkt)
        \o SourceEvents(1, "economic", mkt)

Populated(ev, mkt, outcome) ==
    IF outcome = "events" THEN add_events_bulk(ev, UpdateEvents(mkt)) ELSE ev

CliInit ==
    /\ c_cmd = "none"
    /\ c_args = None
    /\ c_exit = None

\* A command is a process of its own: it builds its manager, and its exit status
\* is what main returns, or 1 when an exception leaves main.
CliCall(cmd, args, exit) ==
    /\ c_cmd' = cmd
    /\ c_args' = <<args>>
    /\ c_exit' = <<exit>>
    /\ UNCHANGED <<m_op, m_format, m_error, m_dup, m_saves>>
    /\ UNCHANGED <<now, guard_vars, store_vars, fetch_vars, pipe_vars>>

\* update_calendars.py main: outcome[m] is what populate_calendar does for market m.
UpdateCommand(market_choice, export, outcome) ==
    LET args == [market |-> market_choice, export |-> export]
        loaded == [m \in Markets |-> Loaded(data_dir[m])]
        cals == [m \in Markets |->
                    IF m \in MarketsOf(market_choice)
                    THEN [loaded[m] EXCEPT !.events = Populated(@, m, outcome[m])]
                    ELSE loaded[m]]
        r == save_all(data_dir, cals, export, Len(MarketOrder))
    IN  IF manager_raises
        THEN /\ CliCall("update", args, 1)
             /\ UNCHANGED <<calendars, data_dir>>
        ELSE /\ calendars' = cals
             /\ data_dir' = r.dirs
             /\ CliCall("update", args, IF r.error # None THEN 1 ELSE 0)

\* query_calendars.py main, with --ticker, --type or neither (the summary)
QueryCommand(market_choice, ticker, type) ==
    LET args == [market |-> market_choice, ticker |-> ticker, type |-> type]
    IN  IF manager_raises
        THEN /\ CliCall("query", args, 1)
             /\ UNCHANGED <<calendars, data_dir>>
        ELSE /\ calendars' = [m \in Markets |-> Loaded(data_dir[m])]
             /\ CliCall("query", args,
                        IF ticker # None THEN 0
                        ELSE IF type # None
                        THEN (IF EventType_raises(type[1]) THEN 1 ELSE 0)
                        ELSE 0)
             /\ UNCHANGED data_dir

DriversIdle == PipelineInit /\ CliInit

-----------------------------------------------------------------------------
(* Specifications *)

InitGuard ==
    /\ now \in ClockOrigins
    /\ GuardInit
    /\ StoreIdle
    /\ FetchIdle
    /\ ManagerInit
    /\ DriversIdle

NextGuard ==
    \/ Start
    \/ \E count \in TokenCounts : RecordTokens(count)
    \/ ShouldContinue
    \/ CheckTimeRemaining
    \/ GetStatus
    \/ ForceShutdown
    \/ GuardTick

SpecGuard == InitGuard /\ [][NextGuard]_vars

InitStore ==
    /\ now = 1000
    /\ StoreInit
    /\ GuardIdle
    /\ FetchIdle
    /\ ManagerInit
    /\ DriversIdle

NextStore ==
    \/ Construct
    \/ \E a \in EventArgs : AddEvent(a)
    \/ \E as \in BulkLists : AddEventsBulk(as)
    \/ \E format_type \in Formats : SaveCalendar(format_type)
    \/ StoreTick

SpecStore == InitStore /\ [][NextStore]_vars

\* The add operations alone, on a calendar constructed on an empty directory
NextBulk ==
    \/ \E a \in EventArgs : AddEvent(a)
    \/ \E as \in BulkLists : AddEventsBulk(as)
    \/ StoreTick

SpecBulk == InitStore /\ [][NextBulk]_vars

\* One MarketCalendar instance, constructed on an empty directory, under its add,
\* query, summary and save operations
NextGrow ==
    \/ \E a \in EventArgs : AddEvent(a)
    \/ \E as \in BulkLists : AddEventsBulk(as)
    \/ \E ticker \in Tickers : GetEventsByTicker(ticker)
    \/ \E start_date \in Dates, end_date \in Dates :
          GetEventsByDateRange(start_date, end_date)
    \/ \E event_type \in EventTypes : GetEventsByType(event_type)
    \/ GetSummary
    \/ \E format_type \in Formats : SaveCalendar(format_type)

SpecGrow == InitStore /\ [][NextGrow]_vars

\* The update cycle, run again and again on one data directory
InitCycle ==
    /\ now = 1000
    /\ CycleInit
    /\ FetchInit
    /\ GuardIdle
    /\ ManagerInit
    /\ DriversIdle

NextCycle ==
    \/ CycleConstruct
    \/ CyclePopulate
    \/ HealthCheck
    \/ FetchEarnings
    \/ FetchDividends
    \/ FetchEconomic
    \/ Populate
    \/ CycleSave
    \/ CycleTick

SpecCycle == InitCycle /\ [][NextCycle]_vars

\* One run of run_full_pipeline
InitPipeline ==
    /\ now \in ClockOrigins
    /\ PipelineGuardInit
    /\ PipelineInit
    /\ CliInit
    /\ StoreIdle
    /\ FetchIdle
    /\ ManagerInit

NextPipeline ==
    \/ SetupPipelineGuard
    \/ \E stage \in {Stages[i] : i \in 1..Len(Stages)} : RunStage(stage)
    \/ RecordStageTokens
    \/ PollGuard
    \/ ReportStatus
    \/ Except

SpecPipeline == InitPipeline /\ [][NextPipeline]_vars

\* The calendar commands, run one after another on data directories that begin
\* without files
InitCli ==
    /\ now = 1000
    /\ ManagerInit
    /\ CliInit
    /\ PipelineInit
    /\ StoreIdle
    /\ GuardIdle
    /\ FetchIdle

NextCli ==
    \/ \E market_choice \in MarketChoices, export \in ExportChoices,
          outcome \in [Markets -> PopulateOutcomes] :
             UpdateCommand(market_choice, export, outcome)
    \/ \E market_choice \in MarketChoices, ticker \in TickerOptions, type \in TypeOptions :
             QueryCommand(market_choice, ticker, type)

SpecCli == InitCli /\ [][NextCli]_vars

InitQuery ==
    /\ now = 1000
    /\ StoreAbsent
    /\ GuardIdle
    /\ FetchIdle
    /\ ManagerInit
    /\ DriversIdle

NextQuery ==
    \/ Construct
    \/ \E a \in QueryArgs : AddEvent(a)
    \/ \E ticker \in Tickers : GetEventsByTicker(ticker)
    \/ \E start_date \in Dates, end_date \in Dates :
          GetEventsByDateRange(start_date, end_date)
    \/ \E event_type \in EventTypes : GetEventsByType(event_type)
    \/ GetSummary

SpecQuery == InitQuery /\ [][NextQuery]_vars

InitFetch ==
    /\ now = 1000
    /\ FetchInit
    /\ StoreGiven
    /\ GuardIdle
    /\ ManagerInit
    /\ DriversIdle

NextFetch ==
    \/ PopulateBegin
    \/ HealthCheck
    \/ FetchEarnings
    \/ FetchDividends
    \/ FetchEconomic
    \/ Populate

SpecFetch == InitFetch /\ [][NextFetch]_vars

InitManager ==
    /\ now = 1000
    /\ ManagerInit
    /\ StoreIdle
    /\ GuardIdle
    /\ FetchIdle
    /\ DriversIdle

NextManager ==
    \/ ManagerConstruct
    \/ \E mkt \in Markets, a \in ManagerArgs : AddEventToMarket(mkt, a)
    \/ \E mkt \in Markets, format_type \in Formats : SaveCalendarOf(mkt, format_type)
    \/ \E format_type \in Formats : SaveAll(format_type)

SpecManager == InitManager /\ [][NextManager]_vars

-----------------------------------------------------------------------------
(* Properties of the ExecutionGuard, under SpecGuard *)

C3_TokenAccounting ==
    /\ [](tokens_used = g_sum)
    /\ [][tokens_used' >= tokens_used]_vars

\* C3's case: two recordings overshoot the budget, and a later poll sees the sum.
C3_Witness ==
    /\ g_op = "should_continue"
    /\ g_records = 2
    /\ daily_token_budget = 3000
    /\ tokens_used = 4000

\* C4: start_time, once set, never changes, under any sequence of guard operations
\* (start, record_tokens, should_continue, check_time_remaining, get_status,
\* force_shutdown).
C4_StartTimeSetOnce == [][start_time # None => start_time' = start_time]_vars

\* C20: for every non-negative daily_token_budget and any sequence of record_tokens
\* calls with non-negative counts, record_tokens, should_continue and get_status
\* complete without raising.
C20_BudgetExhaustionNeverRaises ==
    g_op \in {"record_tokens", "should_continue", "get_status"} => ~g_raised

\* C21: before start() has been called check_time_remaining() reports the full
\* window max_runtime_seconds, however far the clock has advanced; once start() has
\* been called, at any clock value, it returns max_runtime_seconds minus the time
\* elapsed since that start, unclamped (negative after the deadline). start() has
\* been called exactly when start_time is no longer None.
C21_TimeRemaining ==
    g_op = "check_time_remaining" =>
        g_ret[1] = IF start_time = None
                   THEN (execution_window_minutes - 5) * 60
                   ELSE (execution_window_minutes - 5) * 60 - (now - start_time[1])

\* C27: the stop decision latches: under any sequence of start, record_tokens with
\* non-negative counts, clock advances and polls, once should_continue() has
\* returned false every later should_continue() on the same guard returns false.
C27_StopLatches ==
    [][(g_stopped /\ g_op' = "should_continue") => g_ret' = <<FALSE>>]_vars

-----------------------------------------------------------------------------
(* Properties of the MarketCalendar, under SpecStore *)

\* The events of a store, each as the tuple of the given fields
AllStored(ev) == UNION {{ev[t][i] : i \in 1..Len(ev[t])} : t \in DOMAIN ev}

Identity(e) == <<e.ticker, e.date, e.event_type, e.description>>

\* C1: every event stored under key t has ticker t, and no two events of one
\* ticker's list share (date, event_type); a list given to add_events_bulk that
\* holds a key (ticker, date, event_type) more than once leaves exactly one stored
\* event of that key.
C1_DedupInvariant ==
    /\ \A t \in DOMAIN events : \A i \in 1..Len(events[t]) :
          /\ events[t][i].ticker = t
          /\ \A j \in 1..Len(events[t]) :
                j # i => \/ events[t][j].date # events[t][i].date
                         \/ events[t][j].event_type # events[t][i].event_type
    /\ s_op = "add_events_bulk" =>
          \A k \in s_dup :
             /\ k[1] \in DOMAIN events
             /\ Cardinality({i \in 1..Len(events[k[1]]) : Key(events[k[1]][i]) = k}) = 1

\* C1's case: add_events_bulk([e1, e2]) with equal keys on an empty store.
C1_Witness ==
    /\ s_op = "add_events_bulk"
    /\ s_dup # {}
    /\ event_count(events) = 1

\* The store after add_event(list[1]), ..., add_event(list[n]), one call after another
RECURSIVE AddEach(_, _, _)
AddEach(ev, list, n) ==
    IF n = 0 THEN ev ELSE add_event(AddEach(ev, list, n - 1), list[n])

\* Of list[1..n], the events of ticker t that are the first of their key to arrive
\* and whose key the store ev does not hold, in arrival order
RECURSIVE FirstArrivals(_, _, _, _)
FirstArrivals(ev, list, t, n) ==
    IF n = 0 THEN <<>>
    ELSE LET e == list[n]
             stored == t \in DOMAIN ev /\ \E i \in 1..Len(ev[t]) : Key(ev[t][i]) = Key(e)
             earlier == \E j \in 1..(n - 1) : Key(list[j]) = Key(e)
         IN  IF e.ticker = t /\ ~stored /\ ~earlier
             THEN Append(FirstArrivals(ev, list, t, n - 1), e)
             ELSE FirstArrivals(ev, list, t, n - 1)

C29_StoreOnlyGrows ==
    [][/\ AllStored(events) \subseteq AllStored(events')
       /\ \A t \in DOMAIN events :
             /\ t \in DOMAIN events'
             /\ Len(events'[t]) >= Len(events[t])
             /\ SubSeq(events'[t], 1, Len(events[t])) = events[t]
       /\ event_count(events') >= event_count(events)
       /\ s_op' \in {"get_events_by_ticker", "get_events_by_date_range",
                     "get_events_by_type", "get_summary", "save_calendar"}
             => events' = events]_vars

\* C29's case: a store of two events was saved, asked about a ticker it does not
\* hold, and still holds its two events.
C29_Witness ==
    /\ s_op = "get_events_by_ticker"
    /\ s_arg = <<"MSFT">>
    /\ s_saves = 1
    /\ DOMAIN events = {"AAPL", "HSBA"}
    /\ event_count(events) = 2

\* C9: for 'yaml' and for 'json', save_calendar(format) followed by the construction
\* of a fresh MarketCalendar on the same data directory yields the events saved,
\* compared by (ticker, date, event_type, description).
C9_RoundTripBothFormats ==
    (s_op = "construct" /\ saved # None) =>
        {Identity(e) : e \in AllStored(events)}
            = {Identity(e) : e \in AllStored(saved[1].events)}

\* C10: every field of an event written to the file (ticker, market, event_type,
\* date, description, timestamp, metadata) is the same after a save and a reload:
\* stated for the encoding that is reloaded, 'yaml'.
C10_FieldsRoundTrip ==
    (s_op = "construct" /\ saved # None /\ saved[1].format = "yaml") =>
        events = saved[1].events

\* The 'last_updated' of the file written last
LastSaveTime ==
    LET times == {f[1].last_updated : f \in {yaml_file, json_file} \ {None}}
    IN  CHOOSE x \in times : \A y \in times : y <= x

\* C19: the last_updated that get_summary() reports is at every moment the
\* timestamp of the most recent successful save of the calendar, a save by the
\* same instance since its construction included.
C19_LastUpdatedIsLastSave ==
    saved # None => get_summary.last_updated = <<LastSaveTime>>

-----------------------------------------------------------------------------
(* Properties of the CalendarFetcher, under SpecFetch *)

Returned == f_pc \in {"return", "done"}

Calls == 1..Len(f_calls)

Consulted(i) == \E k \in Calls : f_calls[k].src = i

SaidHealthy(i) == \E k \in Calls : f_calls[k] = Called(i, "health_check", "true")

RaisedIn(i) == \E k \in Calls : f_calls[k].src = i /\ f_calls[k].out = "raise"

Gave(i, method) ==
    \E k \in Calls : /\ f_calls[k].src = i
                     /\ f_calls[k].method = method
                     /\ f_calls[k].out \in {"data", "empty"}

\* Source i is healthy and none of its methods raises.
Sound(i) ==
    /\ behaviour[i].health = "true"
    /\ behaviour[i].earnings # "raise"
    /\ behaviour[i].dividends # "raise"
    /\ behaviour[i].economic # "raise"

Least(S) == CHOOSE i \in S : \A j \in S : i <= j
Greatest(S) == CHOOSE i \in S : \A j \in S : j <= i

NeverFetchesFromUnhealthy ==
    \A k \in Calls : f_calls[k].method # "health_check" => SaidHealthy(f_calls[k].src)

\* C5 as stated: sources are consulted in list order, no fetch method is called on
\* a source whose health_check() returned false, earnings and dividends are those
\* of the first healthy source, and no method of a later source is called.
C5_FirstHealthyOnly ==
    /\ NeverFetchesFromUnhealthy
    /\ Returned =>
          LET healthy == {i \in 1..Len(sources) : behaviour[i].health = "true"}
          IN  healthy # {} =>
                 /\ "earnings" \in DOMAIN result =>
                       /\ result["earnings"] = Fetched(Least(healthy), "earnings", market)
                       /\ result["dividends"] = Fetched(Least(healthy), "dividends", market)
                 /\ \A k \in Calls : f_calls[k].src <= Least(healthy)

\* C5 amended: sources are consulted in list order, each first by health_check; no
\* fetch method is called on a source whose health_check() did not return true; a
\* later source is consulted only when every healthy source before it has raised;
\* no call follows a source's returned economic fetch; the result's earnings and
\* dividends are both those of the last source whose dividends fetch returned, and
\* when the first healthy source raises nothing they are its own and no later
\* source is consulted.
C5_FallbackAmended ==
    /\ \A k \in Calls :
          /\ \A l \in Calls : k < l => f_calls[k].src <= f_calls[l].src
          /\ (f_calls[k].method = "health_check")
                <=> (k = 1 \/ f_calls[k - 1].src < f_calls[k].src)
          /\ \A j \in 1..(f_calls[k].src - 1) : ~SaidHealthy(j) \/ RaisedIn(j)
          /\ (f_calls[k].method = "fetch_economic_calendar" /\ f_calls[k].out # "raise")
                => k = Len(f_calls)
    /\ NeverFetchesFromUnhealthy
    /\ Returned =>
          LET gave == {i \in 1..Len(sources) : Gave(i, "fetch_dividend_calendar")}
              healthy == {i \in 1..Len(sources) : behaviour[i].health = "true"}
          IN  /\ ("earnings" \in DOMAIN result) <=> (gave # {})
              /\ ("dividends" \in DOMAIN result) <=> (gave # {})
              /\ gave # {} =>
                    /\ result["earnings"] = Fetched(Greatest(gave), "earnings", market)
                    /\ result["dividends"] = Fetched(Greatest(gave), "dividends", market)
              /\ (healthy # {} /\ Sound(Least(healthy))) =>
                    /\ gave # {} /\ Greatest(gave) = Least(healthy)
                    /\ \A k \in Calls : f_calls[k].src <= Least(healthy)

\* C5's case: A unhealthy, B healthy, C healthy, nothing raises: B's data, C not reached.
C5_Witness ==
    /\ Returned
    /\ behaviour[1].health = "false"
    /\ Sound(2) /\ behaviour[2].earnings = "data" /\ behaviour[2].dividends = "data"
    /\ Sound(3)
    /\ result["earnings"] = SourceEvents(2, "earnings", market)
    /\ ~Consulted(3)

\* C6: the first source in priority order that reports healthy and returns data is
\* the one used: when healthy sources before it return empty earnings and dividend
\* lists, the result and (a calendar that was empty) the store hold its events.
C6_FirstHealthyWithData ==
    f_pc = "done" =>
        LET good == {i \in 1..Len(sources) :
                        /\ Sound(i)
                        /\ behaviour[i].earnings = "data" \/ behaviour[i].dividends = "data"}
            usable == {i \in 1..Len(sources) : behaviour[i].health = "true"}
        IN  (good # {} /\ \A i \in usable : Sound(i)) =>
                LET u == Least(good)
                    got == Fetched(u, "earnings", market) \o Fetched(u, "dividends", market)
                IN  /\ result["earnings"] = Fetched(u, "earnings", market)
                    /\ result["dividends"] = Fetched(u, "dividends", market)
                    /\ f_store0 = EmptyEvents =>
                          \A n \in 1..Len(got) : got[n] \in AllStored(events)

\* C7: an exception raised by a source's health_check or fetch is caught inside
\* fetch_all_calendars: it never reaches the caller, and the loop goes on with the
\* next source in priority order (or ends after the last).
C7_ExceptionsCaught ==
    /\ f_pc # "raised"
    /\ \A k \in Calls :
          f_calls[k].out = "raise" =>
             IF k < Len(f_calls)
             THEN f_calls[k + 1] = Called(f_calls[k].src + 1, "health_check",
                                          behaviour[f_calls[k].src + 1].health)
             ELSE IF f_calls[k].src < Len(sources)
                  THEN f_pc = "health" /\ f_idx = f_calls[k].src + 1
                  ELSE Returned

\* C7's case: a health_check raised, a fetch of the next source raised, and
\* populate_calendar returned all the same.
C7_Witness ==
    /\ f_pc = "done"
    /\ Len(f_calls) >= 4
    /\ f_calls[1].out = "raise"
    /\ f_calls[2].out = "true"
    /\ f_calls[3].out = "raise"
    /\ f_calls[4].method = "health_check"

\* C8: when every source is unhealthy or raises during the call, the result holds
\* no events and populate_calendar leaves the store as it was.
C8_NoUsableSourceNoEvents ==
    (Returned /\ \A i \in 1..Len(sources) : ~SaidHealthy(i) \/ RaisedIn(i)) =>
        /\ AllEvents(result) = <<>>
        /\ f_pc = "done" => events = f_store0

\* The calls of fetch_economic_calendar that returned
EconomicReturns ==
    {k \in Calls : /\ f_calls[k].method = "fetch_economic_calendar"
                   /\ f_calls[k].out # "raise"}

\* C22: economic events are fetched once per fetch_all_calendars call: at most one
\* fetch_economic_calendar call returns; the result has an economic entry exactly
\* when one did, and it is what that source, the first of the pass to supply
\* economic data, returned; after it no fetch_economic_calendar is called, and
\* while the call lasts the entry is not overwritten.
C22_EconomicFetchedOnce ==
    /\ [](/\ Cardinality(EconomicReturns) <= 1
          /\ "economic" \in DOMAIN result <=> EconomicReturns # {}
          /\ \A k \in EconomicReturns :
                /\ result["economic"] = Fetched(f_calls[k].src, "economic", market)
                /\ \A l \in Calls :
                      (l < k /\ f_calls[l].method = "fetch_economic_calendar")
                          => f_calls[l].out = "raise"
                /\ \A l \in Calls :
                      l > k => f_calls[l].method # "fetch_economic_calendar")
    /\ [][("economic" \in DOMAIN result /\ f_runs' = f_runs)
            => ("economic" \in DOMAIN result' /\ result'["economic"] = result["economic"])]_vars

\* C22's case: the first source's fetch_economic_calendar raised, the second
\* source's returned its events, and they are the result's economic entry.
C22_Witness ==
    /\ f_pc = "done"
    /\ \E k \in Calls : f_calls[k] = Called(1, "fetch_economic_calendar", "raise")
    /\ \E k \in Calls : f_calls[k] = Called(2, "fetch_economic_calendar", "data")
    /\ result["economic"] = SourceEvents(2, "economic", market)

\* C28: market consistency: every event stored in the calendar of market M has
\* event.market = M. Stated for the calendar populate_calendar was given empty,
\* once the call has returned.
C28_MarketConsistency ==
    (f_pc = "done" /\ f_store0 = EmptyEvents) =>
        \A e \in AllStored(events) : e.market = market

-----------------------------------------------------------------------------
(* Properties of the update cycle, under SpecCycle *)

\* The records of a calendar.yaml, and each as (ticker, date, event_type, description)
Records(file) ==
    UNION {{file[1].events[t][i] : i \in 1..Len(file[1].events[t])}
              : t \in DOMAIN file[1].events}

Persisted(file) == {<<r.ticker, r.date, r.event_type, r.description>> : r \in Records(file)}

\* C30: the update cycle (construct with load, populate_calendar,
\* save_calendar('yaml')) is idempotent: with unchanged source data the second and
\* every later run persists the event set the run before persisted, and no run
\* loses or duplicates an event loaded from disk. Events are compared by
\* (ticker, date, event_type, description).
C30_UpdateCycleIdempotent ==
    [][(s_op' = "save_calendar" /\ yaml_file # None) =>
          /\ Persisted(yaml_file) \subseteq Persisted(yaml_file')
          /\ yaml_file'[1].event_count = Cardinality(Persisted(yaml_file'))
          /\ s_saves >= 1 =>
                /\ Persisted(yaml_file') = Persisted(yaml_file)
                /\ yaml_file'[1].event_count = yaml_file[1].event_count
                /\ yaml_file'[1].tickers = yaml_file[1].tickers]_vars

\* C30's case: the second run, at a later time, has saved the three events the
\* first run fetched and saved.
C30_Witness ==
    /\ s_op = "save_calendar"
    /\ s_saves = 2
    /\ now > 1000
    /\ yaml_file[1].event_count = 3
    /\ yaml_file[1].last_updated = now

-----------------------------------------------------------------------------
(* Properties of MarketCalendar.__init__ and of the queries, under SpecQuery *)

\* C11: constructing a MarketCalendar when calendar.yaml is missing, or present but
\* unreadable (not parseable, or holding a record that cannot be turned into an
\* event), yields an empty store and raises no error.
C11_LoadNeverRaises ==
    (s_op = "construct" /\ (yaml_file = None \/ load_raises(yaml_file[1]))) =>
        (~s_raised /\ events = EmptyEvents)

\* sub holds the items of list that pass Test, in the order of list
IsFiltered(sub, list, Test(_)) ==
    /\ \A k \in 1..Len(sub) : Test(sub[k])
    /\ Len(sub) = Cardinality({i \in 1..Len(list) : Test(list[i])})
    /\ \E f \in [1..Len(sub) -> 1..Len(list)] :
          /\ \A k \in 1..Len(sub) : sub[k] = list[f[k]]
          /\ \A k \in 1..Len(sub), l \in 1..Len(sub) : k < l => f[k] < f[l]

\* C14: get_events_by_date_range(start, end) returns exactly the stored events e
\* with start <= e.date <= end (both bounds included, strings compared as
\* strings), grouped by ticker in stored order; a ticker without such an event is
\* not in the result, and start > end gives the empty mapping.
C14_DateRangeQuery ==
    s_op = "get_events_by_date_range" =>
        LET start_date == s_arg[1]
            end_date == s_arg[2]
            ret == s_ret[1]
            InRange(e) == StrLeq(start_date, e.date) /\ StrLeq(e.date, end_date)
        IN  /\ DOMAIN ret = {t \in DOMAIN events :
                                \E i \in 1..Len(events[t]) : InRange(events[t][i])}
            /\ \A t \in DOMAIN ret : IsFiltered(ret[t], events[t], InRange)
            /\ ~StrLeq(start_date, end_date) => ret = EmptyEvents

\* C14's case: the range from "10" to "2" over events dated "1", "10" and "2" holds
\* those of "10" and "2" (the bounds) and not the one of "1".
C14_Witness ==
    /\ s_op = "get_events_by_date_range"
    /\ s_arg = << <<1, 0>>, <<2>> >>
    /\ {e.date : e \in AllStored(events)} = Dates
    /\ {e.date : e \in AllStored(s_ret[1])} = {<<1, 0>>, <<2>>}

RECURSIVE SumValues(_, _)
SumValues(f, keys) ==
    IF keys = {} THEN 0
    ELSE LET k == CHOOSE x \in keys : TRUE
         IN  f[k] + SumValues(f, keys \ {k})

\* C15: get_summary() reports total_events equal to the sum of the lengths of the
\* ticker lists and to the sum of the event_types counts, and total_tickers equal
\* to the number of ticker keys.
C15_SummaryConsistency ==
    s_op = "get_summary" =>
        LET r == s_ret[1]
        IN  /\ r.total_events = event_count(events)
            /\ r.total_events = SumValues(r.event_types, DOMAIN r.event_types)
            /\ r.total_tickers = Cardinality(DOMAIN events)

\* C15's case: four events of two types under two tickers, and a third ticker
\* loaded without events.
C15_Witness ==
    /\ s_op = "get_summary"
    /\ "IDLE" \in DOMAIN events
    /\ s_ret[1].total_tickers = 3
    /\ s_ret[1].total_events = 4
    /\ s_ret[1].event_types = [v \in {"earnings", "dividend"} |-> 2]

\* The store was built from the empty one by add operations: nothing was loaded.
BuiltByAdds == yaml_file \in {None, <<EmptyDocument>>}

\* C16: get_summary() reports date_range.first as the least and date_range.last as
\* the greatest date of the stored events (so first <= last), both None exactly
\* when no event is stored; for a store built from the empty one by add operations
\* total_tickers is the number of tickers that have a stored event, and one added
\* AAPL earnings event gives total_tickers = 1, total_events = 1,
\* event_types = {earnings: 1} and first = last = its date.
C16_SummaryDateRange ==
    s_op = "get_summary" =>
        LET r == s_ret[1]
            stored == AllStored(events)
            dates == {e.date : e \in stored}
        IN  /\ (r.date_range.first = None) = (stored = {})
            /\ (r.date_range.last = None) = (stored = {})
            /\ stored # {} =>
                  /\ r.date_range.first[1] \in dates
                  /\ r.date_range.last[1] \in dates
                  /\ \A d \in dates : /\ StrLeq(r.date_range.first[1], d)
                                      /\ StrLeq(d, r.date_range.last[1])
                  /\ StrLeq(r.date_range.first[1], r.date_range.last[1])
            /\ BuiltByAdds => r.total_tickers = Cardinality({e.ticker : e \in stored})
            /\ (BuiltByAdds /\ DOMAIN events = {"AAPL"} /\ Len(events["AAPL"]) = 1
                    /\ events["AAPL"][1].event_type = "EARNINGS") =>
                  /\ r.total_tickers = 1
                  /\ r.total_events = 1
                  /\ r.event_types = [v \in {"earnings"} |-> 1]
                  /\ r.date_range.first = <<events["AAPL"][1].date>>
                  /\ r.date_range.last = <<events["AAPL"][1].date>>

\* C16's case: the events stored are dated "2" and "10", in this order: the first
\* date is "10" and the last "2".
C16_Witness ==
    /\ s_op = "get_summary"
    /\ BuiltByAdds
    /\ DOMAIN events = {"HSBA"}
    /\ Len(events["HSBA"]) = 2
    /\ events["HSBA"][1].date = <<2>>
    /\ s_ret[1].date_range = [first |-> << <<1, 0>> >>, last |-> << <<2>> >>]

\* C17: each stored event is in the result of get_events_by_type(T) for exactly one
\* event type T, its own; the result for T holds only events of type T and no
\* ticker without one; the number of events returned for T is the count of T in
\* the summary's event_types.
C17_TypePartition ==
    s_op = "get_events_by_type" =>
        LET T == s_arg[1]
            ret == s_ret[1]
            OfType(e) == e.event_type = T
        IN  /\ DOMAIN ret = {t \in DOMAIN events :
                                \E i \in 1..Len(events[t]) : OfType(events[t][i])}
            /\ \A t \in DOMAIN ret : ret[t] # <<>> /\ IsFiltered(ret[t], events[t], OfType)
            /\ \A e \in AllStored(events) :
                  {T2 \in EventTypes : e \in AllStored(get_events_by_type(events, T2))}
                      = {e.event_type}
            /\ event_count(ret) = get(get_summary.event_types, EventTypeValue(T), 0)

\* C17's case: of four stored events, the two earnings events are returned.
C17_Witness ==
    /\ s_op = "get_events_by_type"
    /\ s_arg = <<"EARNINGS">>
    /\ event_count(events) = 4
    /\ event_count(s_ret[1]) = 2
    /\ DOMAIN s_ret[1] = {"AAPL", "HSBA"}

-----------------------------------------------------------------------------
(* Properties of the MarketCalendarManager, under SpecManager *)

\* C12: save_calendar(format) with a format other than 'yaml' or 'json' raises a
\* ValueError, writes no file and leaves the in-memory store unchanged; save_all
\* with such a format raises the same error and persists no market's calendar.
C12_UnsupportedFormat ==
    /\ [](m_op \in {"save_calendar", "save_all"} /\ m_format[1] \notin {"yaml", "json"}
            => m_error = <<"ValueError">>)
    /\ [][(m_op' \in {"save_calendar", "save_all"} /\ m_format'[1] \notin {"yaml", "json"})
            => (data_dir' = data_dir /\ calendars' = calendars)]_vars

\* C12's case: save_all('xml') on a manager whose two calendars hold events.
C12_Witness ==
    /\ m_op = "save_all"
    /\ m_format = <<"xml">>
    /\ m_error = <<"ValueError">>
    /\ \A m \in Markets : calendars[m].events # EmptyEvents /\ data_dir[m] = NoFiles

\* C13: add_event of an event whose (ticker, date, event_type) is already stored
\* raises nothing and leaves the store as it was: the event stored first keeps its
\* description and metadata.
C13_DuplicateAddIsNoOp ==
    [][(m_op' = "add_event_to_market" /\ m_dup' # {})
            => (calendars' = calendars /\ m_error' = None)]_vars

\* C13's case: an AAPL earnings event of date "1" is added to the calendar that
\* holds the first-written one, which is still the only one.
C13_Witness ==
    /\ m_op = "add_event_to_market"
    /\ m_dup = {<<"AAPL", <<1>>, "EARNINGS">>}
    /\ \E m \in Markets :
          /\ "AAPL" \in DOMAIN calendars[m].events
          /\ Len(calendars[m].events["AAPL"]) = 1
          /\ calendars[m].events["AAPL"][1].description = "Q1 Earnings"
          /\ calendars[m].events["AAPL"][1].metadata = "eps_estimate"

-----------------------------------------------------------------------------
(* Properties of run_full_pipeline, under SpecPipeline *)

\* C24: stage gating: the stages begin in the order fetch, normalize, LLM,
\* validate; after each of fetch, normalize and LLM the driver records that stage's
\* tokens and then polls should_continue(); a stage after the first begins only
\* right after a poll that returned true, and nothing runs after a poll that
\* returned false.
C24_StageGating ==
    /\ Len(p_trace) <= 10
    /\ \A k \in 1..Len(p_trace) :
          /\ p_trace[k].kind = <<"stage", "record", "poll">>[((k - 1) % 3) + 1]
          /\ p_trace[k].stage = <<"fetch", "normalize", "llm", "validate">>[((k - 1) \div 3) + 1]
          /\ (k > 1 /\ p_trace[k].kind = "stage") =>
                (p_trace[k - 1].kind = "poll" /\ p_trace[k - 1].ok)
          /\ (p_trace[k].kind = "poll" /\ ~p_trace[k].ok) => k = Len(p_trace)

\* C24's case: the poll after fetch returned true, the poll after normalize
\* returned false, and the run returned without beginning the LLM stage.
C24_Witness ==
    /\ p_pc = At("returned", "normalize")
    /\ Len(p_trace) = 6
    /\ p_trace[3].kind = "poll" /\ p_trace[3].ok
    /\ p_trace[6].kind = "poll" /\ ~p_trace[6].ok

\* The run is over: it returned, or an exception left it.
Over == p_pc.at \in {"returned", "raised"}

\* The polls of the run that returned false, by the stage they followed
StoppedAfter(stage) ==
    \E k \in 1..Len(p_trace) :
        p_trace[k].kind = "poll" /\ p_trace[k].stage = stage /\ ~p_trace[k].ok

\* The status a returned record has is the one the polls call for.
StatusMatchesPolls ==
    (p_pc.at = "returned") =>
        LET status == p_ret[1].status
            polls == {k \in 1..Len(p_trace) : p_trace[k].kind = "poll"}
        IN  /\ status \in {"halted", "partial", "success", "error"}
            /\ status = "halted" <=> (StoppedAfter("fetch") \/ StoppedAfter("normalize"))
            /\ status = "partial" <=> StoppedAfter("llm")
            /\ status = "partial" => p_ret[1].steps_completed = 3
            /\ status = "success" =>
                  /\ Cardinality(polls) = 3
                  /\ \A k \in polls : p_trace[k].ok
                  /\ p_trace[Len(p_trace)] = Entry("stage", "validate", 0, TRUE)
                  /\ tokens_used = 100 + 150 + 2000

\* C25: every run that gets past guard setup ends by returning one status of
\* halted, partial, success, error: halted exactly when the guard signals stop
\* after fetch or after normalize, partial (steps_completed = 3) exactly when it
\* signals stop after the LLM stage, success only when all three polls returned
\* true and validation ran, the guard having recorded 2250 tokens.
C25_RunReturnsOneStatus ==
    Over => (p_pc.at = "returned" /\ p_ret # None /\ StatusMatchesPolls)

\* An exception was raised in the try block of the run.
RaisedInRun ==
    \E k \in 1..Len(p_trace) : ~p_trace[k].ok /\ p_trace[k].kind \in {"stage", "record"}

\* C26: an exception raised during the run (by a stage, by record_tokens or by
\* should_continue) is caught and turned into a returned record with status
\* 'error' that carries the guard's status snapshot; no exception leaves
\* run_full_pipeline once the guard has been created.
C26_ExceptionsBecomeErrorRecords ==
    /\ ~p_raised
    /\ (Over /\ RaisedInRun) =>
          /\ p_ret # None
          /\ p_ret[1].status = "error"
          /\ "execution_guard" \in DOMAIN p_ret[1]
          /\ p_ret[1].execution_guard.tokens_used = tokens_used

-----------------------------------------------------------------------------
(* Properties of the calendar commands, under SpecCli *)

\* C23: the calendar commands end with exit status 0 for every accepted
\* combination of option values: update even when populating a market fails, query
\* for every value its --type option accepts.
C23_CommandsExitZero == c_cmd \in {"update", "query"} => c_exit = <<0>>

====
